---- MODULE Spec2Model ----
(***************************************************************************)
(* A model of the internet-speed ranking server (server/src/index.ts):    *)
(* the CSV loader, the ranking of the loaded rows, the three query        *)
(* handlers and the webhook notification each of them awaits.             *)
(* And of the polling hook of the dashboard                                *)
(* (client/components/internet-speed-ranking.tsx).                         *)
(***************************************************************************)
EXTENDS Integers, Sequences, FiniteSets, TLC

VARIABLES
    alive,            \* the node process is running
    fileExists,       \* ./data/sample.csv is present on disk
    unread,           \* rows of the file the read stream has not delivered yet
    results,          \* the array `results` of readCSV (sorted in place by .then)
    loader,           \* "reading" | "loaded" | "failed"
    globalSpeedData,  \* the published snapshot
    provider,         \* NOTIFICATION_PROVIDER
    webhookSet,       \* NOTIFICATION_WEBHOOK_URL is a non-empty string
    req,              \* the request being handled (one handler activation)
    client,           \* the state of the hook useInternetSpeedData in the browser
    now               \* the browser's clock

vars == <<alive, fileExists, unread, results, loader, globalSpeedData,
          provider, webhookSet, req, client, now>>

---------------------------------------------------------------------------
(* Bounds of the model. *)

\* longest dataset of the full server specification
MaxRows == 2
\* longest dataset over the rows with a non-numeric cell (ranking specification)
MaxTieRows == 7
\* longest dataset over the numeric rows (ranking specification)
MaxLongRows == 11
\* last reading of the browser's clock
MaxClock == 2
\* polls of the hook in flight at once
MaxPending == 2

(* Program constants. *)

\* .slice(0, 10)
TopN == 10
\* parseFloat(data.avg_d_kbps) / 1000
Kilo == 1000

---------------------------------------------------------------------------
(* Numbers.  A JavaScript number is modelled as a record: NaN, or a finite *)
(* value.                                                                  *)

NaN == [nan |-> TRUE, v |-> 0]
Num(n) == [nan |-> FALSE, v |-> n]

\* the cells of the model that are written as a number, and their values
NumericCells == {"1", "3", "5", "20", "1000", "2000", "2024"}
Value(cell) ==
    CASE cell = "1" -> 1
      [] cell = "3" -> 3
      [] cell = "5" -> 5
      [] cell = "20" -> 20
      [] cell = "1000" -> 1000
      [] cell = "2000" -> 2000
      [] cell = "2024" -> 2024

\* parseFloat on a CSV cell: the number it is written as, NaN when it is
\* not a number.
ParseFloat(cell) == IF cell \in NumericCells THEN Num(Value(cell)) ELSE NaN

\* parseInt on a CSV cell (the numeric cells of the model are integers)
ParseInt(cell) == IF cell \in NumericCells THEN Num(Value(cell)) ELSE NaN

\* x / 1000 (the cells of the model are whole multiples of 1000)
DivKilo(x) == IF x.nan THEN NaN ELSE Num(x.v \div Kilo)

\* b - a
Minus(b, a) == IF a.nan \/ b.nan THEN NaN ELSE Num(b.v - a.v)

---------------------------------------------------------------------------
(* The dataset. *)

Tiles == {"A", "B"}
Cells == {"n/a", "1000", "2000"}
BaseRow ==
    [tile |-> "A", avg_d_kbps |-> "1000", avg_u_kbps |-> "1000", avg_lat_ms |-> "20",
     tests |-> "5", devices |-> "3", year |-> "2024", quarter |-> "1"]
\* the rows a dataset is made of: every tile with every download cell, and
\* one row whose tests cell is not a number
Rows ==
    {[BaseRow EXCEPT !.tile = t, !.avg_d_kbps = c] : t \in Tiles, c \in Cells}
        \cup {[BaseRow EXCEPT !.tests = "n/a"]}

\* every sequence over S of length at most n
SeqsUpTo(S, n) == UNION {[1..k -> S] : k \in 0..n}

\* the "data" callback: one row of the file becomes one SpeedData object.
\* `row` is the identity of the object (the index it is pushed at).
ToSpeedData(data, index) ==
    [row |-> index,
     tile |-> data.tile,
     avgDownloadSpeed |-> DivKilo(ParseFloat(data.avg_d_kbps)),
     avgUploadSpeed |-> DivKilo(ParseFloat(data.avg_u_kbps)),
     avgLatency |-> ParseFloat(data.avg_lat_ms),
     tests |-> ParseInt(data.tests),
     devices |-> ParseInt(data.devices),
     year |-> ParseInt(data.year),
     quarter |-> ParseInt(data.quarter)]

---------------------------------------------------------------------------
(* data.sort((a, b) => b.avgDownloadSpeed - a.avgDownloadSpeed)            *)
(*                                                                         *)
(* Array.prototype.sort as node's engine computes it for an array shorter  *)
(* than 64 elements: the initial run is counted (and reversed when it is   *)
(* strictly descending under the comparator), the rest is inserted by      *)
(* binary search.  A NaN result of the comparator counts as 0.             *)

\* the comparator of line 167
CompareSpeed(a, b) == Minus(b.avgDownloadSpeed, a.avgDownloadSpeed)

\* the number the sort sees: NaN is taken as 0
SortCompare(a, b) ==
    LET v == CompareSpeed(a, b) IN IF v.nan THEN 0 ELSE v.v

\* last index of the run that starts at 1 and already holds 1..idx
RECURSIVE RunEnd(_, _, _)
RunEnd(a, idx, descending) ==
    IF idx = Len(a) THEN idx
    ELSE LET order == SortCompare(a[idx + 1], a[idx])
         IN IF (descending /\ order >= 0) \/ (~descending /\ order < 0)
            THEN idx
            ELSE RunEnd(a, idx + 1, descending)

CountAndMakeRun(a) ==
    IF Len(a) < 2 THEN [arr |-> a, run |-> Len(a)]
    ELSE LET descending == SortCompare(a[2], a[1]) < 0
             n == RunEnd(a, 2, descending)
         IN [arr |-> IF descending
                     THEN [i \in 1..Len(a) |-> IF i <= n THEN a[n + 1 - i] ELSE a[i]]
                     ELSE a,
             run |-> n]

\* number of elements of a[1..right] the pivot is placed after
RECURSIVE BinarySearch(_, _, _, _)
BinarySearch(a, pivot, left, right) ==
    IF left >= right THEN left
    ELSE LET mid == left + ((right - left) \div 2)
         IN IF SortCompare(pivot, a[mid + 1]) < 0
            THEN BinarySearch(a, pivot, left, mid)
            ELSE BinarySearch(a, pivot, mid + 1, right)

\* a[1..start] is sorted; insert a[start+1], a[start+2], ...
RECURSIVE BinaryInsertionSort(_, _)
BinaryInsertionSort(a, start) ==
    IF start >= Len(a) THEN a
    ELSE LET pivot == a[start + 1]
             left == BinarySearch(a, pivot, 0, start)
             moved == [i \in 1..Len(a) |->
                          IF i <= left THEN a[i]
                          ELSE IF i = left + 1 THEN pivot
                          ELSE IF i <= start + 1 THEN a[i - 1]
                          ELSE a[i]]
         IN BinaryInsertionSort(moved, start + 1)

ArraySort(a) ==
    LET r == CountAndMakeRun(a) IN BinaryInsertionSort(r.arr, r.run)

Min(a, b) == IF a < b THEN a ELSE b

\* .slice(0, 11): one element too many
SliceOneMore(a, begin, end) == SubSeq(a, begin + 1, Min(end + 1, Len(a)))

\* a.slice(begin, end), for 0 <= begin <= end
Slice(a, begin, end) == SubSeq(a, begin + 1, Min(end, Len(a)))

---------------------------------------------------------------------------
(* JSON bodies (res.json): a number that is NaN is serialised as null,     *)
(* and the identity of the object is not part of the body.                 *)

JsonNumber(x) == IF x.nan THEN [null |-> TRUE, v |-> 0] ELSE [null |-> FALSE, v |-> x.v]
ToJson(item) ==
    [tile |-> item.tile,
     avgDownloadSpeed |-> JsonNumber(item.avgDownloadSpeed),
     avgUploadSpeed |-> JsonNumber(item.avgUploadSpeed),
     avgLatency |-> JsonNumber(item.avgLatency),
     tests |-> JsonNumber(item.tests),
     devices |-> JsonNumber(item.devices),
     year |-> JsonNumber(item.year),
     quarter |-> JsonNumber(item.quarter)]
ToJsonArray(items) == [i \in 1..Len(items) |-> ToJson(items[i])]

---------------------------------------------------------------------------
(* sendNotification *)

Providers == {"none", "discord", "slack", "generic", "teams"}

NotificationMessage(kind, tile) ==
    CASE kind = "speeds" -> <<"Website requested internet speeds data">>
      [] kind = "tiles" -> <<"Website requested tiles data">>
      [] kind = "tile" -> <<"Website requested data for tile: ", tile>>

\* the switch of lines 102-115; "none" for a provider it does not know
PayloadKey(p) ==
    CASE p = "discord" -> "content"
      [] p = "slack" -> "text"
      [] p = "generic" -> "message"
      [] OTHER -> "none"

\* how the call starts: skipped, given up, or a post in flight
NotificationStart(p, urlSet) ==
    IF p = "none" \/ ~urlSet THEN "skipped"
    ELSE IF PayloadKey(p) = "none" THEN "unknown"
    ELSE "posting"

\* a sendNotification without the catch of line 119: the rejection of
\* axios.post leaves the function
SettleWithoutCatch(postResult) ==
    IF postResult = "rejected" THEN "threw" ELSE "returned"

\* how the promise of sendNotification settles once axios.post has settled:
\* the try/catch of lines 100-121 logs a rejection and returns.
Settle(postResult) == "returned"

---------------------------------------------------------------------------
(* The query handlers, from the value the awaited sendNotification left. *)

InternalError == [status |-> 500, body |-> [error |-> "Internal server error"]]

MapTiles(items) == [i \in 1..Len(items) |-> items[i].tile]

RECURSIVE Unique(_)
\* [...new Set(values)]: the first occurrence of each value, in order
Unique(values) ==
    IF values = <<>> THEN <<>>
    ELSE LET n == Len(values)
             front == Unique(SubSeq(values, 1, n - 1))
         IN IF \E i \in 1..Len(front) : front[i] = values[n]
            THEN front
            ELSE Append(front, values[n])

\* the tiles without the Set
DistinctTilesNoSet(snapshot) == MapTiles(snapshot)

DistinctTiles(snapshot) == Unique(MapTiles(snapshot))

\* Array.prototype.find: index of the first match, 0 for undefined
Find(snapshot, tile) ==
    IF \E i \in 1..Len(snapshot) : snapshot[i].tile = tile
    THEN CHOOSE i \in 1..Len(snapshot) :
            /\ snapshot[i].tile = tile
            /\ \A j \in 1..(i - 1) : snapshot[j].tile # tile
    ELSE 0

Handle(kind, tile, outcome, snapshot) ==
    IF outcome = "threw" THEN InternalError
    ELSE CASE kind = "speeds" -> [status |-> 200, body |-> ToJsonArray(snapshot)]
           [] kind = "tiles" -> [status |-> 200, body |-> DistinctTiles(snapshot)]
           [] kind = "tile" ->
                LET i == Find(snapshot, tile)
                IN IF i # 0
                   THEN [status |-> 200, body |-> ToJson(snapshot[i])]
                   ELSE [status |-> 404, body |-> [message |-> "Tile not found"]]

---------------------------------------------------------------------------
(* The browser: fetchData and the hook useInternetSpeedData                *)
(* (client/components/internet-speed-ranking.tsx).                         *)

NoDate == [set |-> FALSE, t |-> 0]
DateAt(t) == [set |-> TRUE, t |-> t]
NoError == [null |-> TRUE, message |-> ""]
ErrorMessage(m) == [null |-> FALSE, message |-> m]

\* what fetch(API_URL) can come to: a rejection (the server is not reached),
\* or a response with a status and a body that is JSON or not
FetchBodies ==
    {ToJsonArray(<<>>),
     ToJsonArray(<<ToSpeedData(BaseRow, 1)>>),
     ToJsonArray(<<ToSpeedData([BaseRow EXCEPT !.tile = "B"], 1), ToSpeedData(BaseRow, 2)>>)}
FetchResults ==
    {[rejects |-> TRUE, status |-> 0, parses |-> FALSE, body |-> <<>>]}
        \cup {[rejects |-> FALSE, status |-> st, parses |-> FALSE, body |-> <<>>] :
                 st \in {200, 404, 500}}
        \cup {[rejects |-> FALSE, status |-> 200, parses |-> TRUE, body |-> b] :
                 b \in FetchBodies}
NoFetch == [rejects |-> FALSE, status |-> 0, parses |-> FALSE, body |-> <<>>]

\* fetchData: the array of the response, or the error it throws
FetchData(r) ==
    IF r.rejects THEN [threw |-> TRUE, message |-> "Failed to fetch", value |-> <<>>]
    ELSE IF ~(r.status >= 200 /\ r.status <= 299)
    THEN [threw |-> TRUE,
          message |-> IF r.status = 404 THEN "HTTP error! status: 404"
                      ELSE "HTTP error! status: 500",
          value |-> <<>>]
    ELSE IF ~r.parses
    THEN [threw |-> TRUE, message |-> "Unexpected token in JSON", value |-> <<>>]
    ELSE [threw |-> FALSE, message |-> "", value |-> r.body]

ClientInitial ==
    [phase |-> "rendered", data |-> <<>>, lastUpdated |-> NoDate, isLoading |-> TRUE,
     error |-> NoError, pending |-> 0, last |-> NoFetch]

\* a catch block that also resets the data: setData([]) on an error
SettleClearingData(c, r, t) ==
    LET result == FetchData(r)
    IN IF result.threw
       THEN [c EXCEPT !.data = <<>>, !.error = ErrorMessage(result.message),
                      !.isLoading = FALSE]
       ELSE [c EXCEPT !.data = result.value, !.lastUpdated = DateAt(t),
                      !.error = NoError, !.isLoading = FALSE]

\* fetchDataAndUpdate after its await: the try, the catch and the finally
SettleState(c, r, t) ==
    LET result == FetchData(r)
    IN IF result.threw
       THEN [c EXCEPT !.error = ErrorMessage(result.message), !.isLoading = FALSE]
       ELSE [c EXCEPT !.data = result.value, !.lastUpdated = DateAt(t),
                      !.error = NoError, !.isLoading = FALSE]

---------------------------------------------------------------------------
(* State. *)

\* the :tile parameter of a request
Params == Tiles \cup {"XX99"}
\* GET /api/internet-speeds, GET /api/tiles, GET /api/internet-speeds/:tile
Requests ==
    {[kind |-> "speeds", tile |-> ""], [kind |-> "tiles", tile |-> ""]}
        \cup {[kind |-> "tile", tile |-> t] : t \in Params}

Idle == [pc |-> "idle", kind |-> "speeds", tile |-> "", payload |-> "none",
         notif |-> "none", outcome |-> "none", status |-> 0, body |-> <<>>,
         seen |-> <<>>]

InitProcess ==
    /\ alive = TRUE
    /\ results = <<>>
    /\ loader = "reading"
    /\ globalSpeedData = <<>>
    /\ req = Idle
    /\ client = ClientInitial
    /\ now = 0

Init ==
    /\ InitProcess
    /\ fileExists \in BOOLEAN
    /\ unread \in (IF fileExists THEN SeqsUpTo(Rows, MaxRows) ELSE {<<>>})
    /\ provider \in Providers
    /\ webhookSet \in BOOLEAN

---------------------------------------------------------------------------
(* readCSV("./data/sample.csv") *)

\* .on("data"): push one SpeedData
Data ==
    /\ alive /\ loader = "reading" /\ fileExists
    /\ unread # <<>>
    /\ results' = Append(results, ToSpeedData(Head(unread), Len(results) + 1))
    /\ unread' = Tail(unread)
    /\ UNCHANGED <<alive, fileExists, loader, globalSpeedData, provider, webhookSet, req, client, now>>

\* .on("end"): resolve(results); the .then callback runs before any other
\* event: sort in place, publish the first ten.
End ==
    /\ alive /\ loader = "reading" /\ fileExists
    /\ unread = <<>>
    /\ LET sorted == ArraySort(results)
       IN /\ results' = sorted
          /\ globalSpeedData' = Slice(sorted, 0, TopN)
    /\ loader' = "loaded"
    /\ UNCHANGED <<alive, fileExists, unread, provider, webhookSet, req, client, now>>

\* "error" on the stream pipe() returned, the csv parser, which is the stream
\* the listener of line 157 is registered on: logged, reject(error), and the
\* .catch callback logs again.  The snapshot is not assigned.
ParserError ==
    /\ alive /\ loader = "reading" /\ fileExists
    /\ loader' = "failed"
    /\ unread' = <<>>
    /\ UNCHANGED <<alive, fileExists, results, globalSpeedData, provider, webhookSet, req, client, now>>

\* "error" on the stream fs.createReadStream returned (the file is missing,
\* or a read fails).  pipe() does not forward it and line 140 registers no
\* listener on that stream: the event is an uncaught exception, which ends
\* the process.
ReadStreamError ==
    /\ alive /\ loader = "reading"
    /\ alive' = FALSE
    /\ unread' = <<>>
    /\ results' = <<>>
    /\ globalSpeedData' = <<>>
    /\ req' = Idle
    /\ loader' = "failed"
    /\ UNCHANGED <<fileExists, provider, webhookSet, client, now>>

---------------------------------------------------------------------------
(* app.get(...) *)

\* a request arrives: the handler runs up to its await of sendNotification
Arrive(kind, tile) ==
    /\ alive /\ req.pc \in {"idle", "done"}
    /\ LET start == NotificationStart(provider, webhookSet)
       IN req' = [Idle EXCEPT
                    !.pc = IF start = "posting" THEN "posting" ELSE "ready",
                    !.kind = kind,
                    !.tile = tile,
                    !.payload = IF start = "posting"
                                THEN <<PayloadKey(provider), NotificationMessage(kind, tile)>>
                                ELSE "none",
                    !.notif = start,
                    !.outcome = IF start = "posting" THEN "none" ELSE "returned"]
    /\ UNCHANGED <<alive, fileExists, unread, results, loader, globalSpeedData,
                   provider, webhookSet, client, now>>

\* axios.post settles (the webhook's answer, or the failure to reach it)
PostSettles(postResult) ==
    /\ alive /\ req.pc = "posting"
    /\ req' = [req EXCEPT !.pc = "ready",
                          !.notif = IF postResult = "fulfilled" THEN "sent" ELSE "failed",
                          !.outcome = Settle(postResult)]
    /\ UNCHANGED <<alive, fileExists, unread, results, loader, globalSpeedData,
                   provider, webhookSet, client, now>>

\* a handler that takes its answer out of the snapshot (shift) instead of
\* reading it
RespondShifting ==
    /\ alive /\ req.pc = "ready"
    /\ LET r == Handle(req.kind, req.tile, req.outcome, globalSpeedData)
       IN req' = [req EXCEPT !.pc = "done", !.status = r.status, !.body = r.body,
                             !.seen = globalSpeedData]
    /\ globalSpeedData' = IF globalSpeedData = <<>> THEN <<>> ELSE Tail(globalSpeedData)
    /\ UNCHANGED <<alive, fileExists, unread, results, loader, provider, webhookSet, client, now>>

\* the handler continues after the await and sends its response
Respond ==
    /\ alive /\ req.pc = "ready"
    /\ LET r == Handle(req.kind, req.tile, req.outcome, globalSpeedData)
       IN req' = [req EXCEPT !.pc = "done", !.status = r.status, !.body = r.body,
                             !.seen = globalSpeedData]
    /\ UNCHANGED <<alive, fileExists, unread, results, loader, globalSpeedData,
                   provider, webhookSet, client, now>>

Next ==
    \/ Data
    \/ End
    \/ ParserError
    \/ ReadStreamError
    \/ \E r \in Requests : Arrive(r.kind, r.tile)
    \/ \E postResult \in {"fulfilled", "rejected"} : PostSettles(postResult)
    \/ Respond

Spec == Init /\ [][Next]_vars

---------------------------------------------------------------------------
(* The loader alone, on longer datasets: the rows of tile "A" with any     *)
(* download cell up to MaxTieRows of them, those with a numeric download   *)
(* cell up to MaxLongRows.                                                 *)

TieRows == {r \in Rows : r.tile = "A" /\ r.tests = BaseRow.tests}
LongRows == {r \in TieRows : ~ParseFloat(r.avg_d_kbps).nan}

InitRank ==
    /\ InitProcess
    /\ fileExists = TRUE
    /\ unread \in SeqsUpTo(TieRows, MaxTieRows) \cup SeqsUpTo(LongRows, MaxLongRows)
    /\ provider = "none"
    /\ webhookSet = FALSE

NextLoad ==
    \/ Data
    \/ End
    \/ ParserError
    \/ ReadStreamError

SpecRank == InitRank /\ [][NextLoad]_vars

---------------------------------------------------------------------------
(* Comparisons of numbers as the claims read them: NaN is neither less     *)
(* than nor equal to anything.                                             *)

Less(x, y) == ~x.nan /\ ~y.nan /\ x.v < y.v
Equal(x, y) == ~x.nan /\ ~y.nan /\ x.v = y.v

\* C1: the published ranking is the input stably sorted by avgDownloadSpeed
\* descending: no record is followed by one with a greater speed, and two
\* records of equal speed keep the order they were read in.
C1_StablySortedDescending ==
    loader = "loaded" =>
        /\ \A i \in 1..(Len(globalSpeedData) - 1) :
              ~Less(globalSpeedData[i].avgDownloadSpeed,
                    globalSpeedData[i + 1].avgDownloadSpeed)
        /\ \A i, j \in 1..Len(globalSpeedData) :
              (i < j /\ Equal(globalSpeedData[i].avgDownloadSpeed,
                              globalSpeedData[j].avgDownloadSpeed))
                  => globalSpeedData[i].row < globalSpeedData[j].row

\* C2: once loaded, the snapshot is the first min(10, n) elements of the
\* sorted sequence of the n rows read; its length never exceeds 10.
C2_FirstTenOfSorted ==
    /\ Len(globalSpeedData) <= 10
    /\ loader = "loaded" =>
          /\ Len(globalSpeedData) = (IF Len(results) < 10 THEN Len(results) ELSE 10)
          /\ \A i \in 1..Len(globalSpeedData) : globalSpeedData[i] = results[i]

C2_Truncated ==
    /\ loader = "loaded"
    /\ Len(results) > 10
    /\ Len(globalSpeedData) = 10

---------------------------------------------------------------------------
(* Claims about the query handlers, read off the request that was          *)
(* answered: req.seen is the snapshot its handler read.                    *)

Answered(kind) == req.pc = "done" /\ req.kind = kind

TilesOf(snapshot) == {snapshot[i].tile : i \in 1..Len(snapshot)}

\* C3: GET /api/internet-speeds/:tile answers with the one record of the
\* snapshot whose tile is the parameter when the tile is present, and with
\* 404 {message: "Tile not found"} when it is absent.
C3_GetByTileUniqueOrNotFound ==
    Answered("tile") =>
        LET matches == {i \in 1..Len(req.seen) : req.seen[i].tile = req.tile}
        IN IF matches = {}
           THEN req.status = 404 /\ req.body = [message |-> "Tile not found"]
           ELSE /\ Cardinality(matches) = 1
                /\ req.status = 200
                /\ \A i \in matches : req.body = ToJson(req.seen[i])

\* C4: GET /api/tiles answers with a list without duplicates, as long as the
\* set of tiles of the snapshot, and each entry is a tile of the snapshot.
C4_DistinctTiles ==
    Answered("tiles") =>
        /\ req.status = 200
        /\ \A i, j \in 1..Len(req.body) : i # j => req.body[i] # req.body[j]
        /\ Len(req.body) = Cardinality(TilesOf(req.seen))
        /\ \A i \in 1..Len(req.body) : req.body[i] \in TilesOf(req.seen)

C4_AnsweredWithRepeatedTile ==
    /\ Answered("tiles")
    /\ Len(req.seen) = 2
    /\ Len(req.body) = 1

\* C5: no two records of the snapshot have the same tile.
C5_UniqueTiles ==
    \A i, j \in 1..Len(globalSpeedData) :
        i # j => globalSpeedData[i].tile # globalSpeedData[j].tile

\* C6: every numeric field of every record of the snapshot is finite.
C6_FiniteFields ==
    \A i \in 1..Len(globalSpeedData) :
        LET item == globalSpeedData[i]
        IN \A x \in {item.avgDownloadSpeed, item.avgUploadSpeed, item.avgLatency,
                      item.tests, item.devices, item.year, item.quarter} : ~x.nan

\* C7: when the load has failed (missing file, failing read stream) the
\* process is still running, the snapshot is empty, and
\* GET /api/internet-speeds is answered 200 with an empty array.
C7_LoadFailureServesEmpty ==
    loader = "failed" =>
        /\ alive
        /\ globalSpeedData = <<>>
        /\ Answered("speeds") => (req.status = 200 /\ req.body = <<>>)

\* C8: the response of a handler whose notification post failed (or was
\* sent, or skipped) is the response the handler gives on that snapshot
\* when sendNotification just returns.
C8_NotificationNeverChangesResponse ==
    req.pc = "done" =>
        LET plain == Handle(req.kind, req.tile, "returned", req.seen)
        IN req.status = plain.status /\ req.body = plain.body

C8_AnsweredAfterFailedPost ==
    /\ req.pc = "done"
    /\ req.notif = "failed"
    /\ req.status = 200
    /\ req.seen # <<>>

\* C9: sending the response does not wait for the webhook post: while the
\* post of a request is in flight, its response can be sent.
C9_ResponseNotBlockedByPost ==
    (alive /\ req.pc = "posting") => ENABLED Respond

\* C10: no query is answered while the load is in progress, so a query
\* never saw the empty snapshot of a dataset that loaded records.
C10_LoadBeforeServing ==
    req.pc = "done" =>
        /\ loader # "reading"
        /\ (loader = "loaded" /\ globalSpeedData # <<>>) => req.seen # <<>>

\* C11: the three queries are read-only: no step of a request (its arrival,
\* the settling of its notification, its response, whatever the outcome)
\* changes the snapshot, and once the snapshot is published it is the same
\* sequence of records in every later state.
C11_QueriesReadOnly ==
    [][/\ (req' # req => globalSpeedData' = globalSpeedData)
       /\ (loader = "loaded" => globalSpeedData' = globalSpeedData)]_vars

C11_NotFoundOnPublishedSnapshot ==
    /\ loader = "loaded"
    /\ globalSpeedData # <<>>
    /\ Answered("tile")
    /\ req.status = 404
    /\ req.notif = "failed"
    /\ req.seen = globalSpeedData

---------------------------------------------------------------------------
(* The hook alone.  A state update of a component that is no longer        *)
(* mounted is dropped.                                                     *)

ServerVars == <<alive, fileExists, unread, results, loader, globalSpeedData,
                provider, webhookSet, req>>

\* fetchDataAndUpdate up to its await: setIsLoading(true), fetch sent
StartPoll(c) == [c EXCEPT !.isLoading = TRUE, !.pending = c.pending + 1]

\* the effect after the first render: one poll at once, and the interval
Effect ==
    /\ client.phase = "rendered"
    /\ client' = StartPoll([client EXCEPT !.phase = "mounted"])
    /\ UNCHANGED <<ServerVars, now>>

\* setInterval(fetchDataAndUpdate, REFRESH_INTERVAL) fires, whether or not
\* the previous poll has completed
IntervalFires ==
    /\ client.phase = "mounted"
    /\ client.pending < MaxPending
    /\ client' = StartPoll(client)
    /\ UNCHANGED <<ServerVars, now>>

\* a fetch comes to its result and fetchDataAndUpdate runs to its end
PollSettles(r) ==
    /\ client.pending > 0
    /\ client' = IF client.phase = "mounted"
                 THEN [SettleState(client, r, now) EXCEPT
                          !.pending = client.pending - 1, !.last = r]
                 ELSE [client EXCEPT !.pending = client.pending - 1]
    /\ UNCHANGED <<ServerVars, now>>

\* the cleanup of the effect: clearInterval
Unmount ==
    /\ client.phase = "mounted"
    /\ client' = [client EXCEPT !.phase = "unmounted"]
    /\ UNCHANGED <<ServerVars, now>>

Tick ==
    /\ now < MaxClock
    /\ now' = now + 1
    /\ UNCHANGED <<ServerVars, client>>

InitClient ==
    /\ InitProcess
    /\ fileExists = TRUE
    /\ unread = <<>>
    /\ provider = "none"
    /\ webhookSet = FALSE

NextClient ==
    \/ Effect
    \/ IntervalFires
    \/ \E r \in FetchResults : PollSettles(r)
    \/ Unmount
    \/ Tick

SpecClient == InitClient /\ [][NextClient]_vars

\* the poll that completes in this step, of a mounted hook
Completes == client.phase = "mounted" /\ client'.pending < client.pending

\* C12: a poll that fails (the fetch is rejected, or the status is not OK)
\* leaves data and lastUpdated as they were and sets error to a message; a
\* poll that succeeds replaces data by the array fetched, sets lastUpdated
\* to the time of completion and clears error; after either isLoading is
\* false.
C12_PollOutcome ==
    [][Completes =>
        LET r == client'.last
        IN /\ client'.isLoading = FALSE
           /\ (r.rejects \/ r.status # 200) =>
                 /\ client'.data = client.data
                 /\ client'.lastUpdated = client.lastUpdated
                 /\ ~client'.error.null
           /\ (~r.rejects /\ r.status = 200 /\ r.parses) =>
                 /\ client'.data = r.body
                 /\ client'.lastUpdated = DateAt(now)
                 /\ client'.error.null]_vars

C12_FailedPollKeepsData ==
    /\ client.phase = "mounted"
    /\ client.pending = 0
    /\ ~client.last.rejects /\ client.last.status = 500
    /\ client.data # <<>>
    /\ client.lastUpdated = DateAt(1)
    /\ now = 2
    /\ ~client.error.null
    /\ ~client.isLoading

====
